---------------------------- MODULE Spec2Model ----------------------------
(***************************************************************************)
(* Audio looper: the AudioLooper session component, its AudioTrack         *)
(* components and their WaveformDisplay, as state machines over the React  *)
(* state (useState), refs (useRef) and the Web Audio nodes they create.    *)
(*                                                                         *)
(* Times are integers in milliseconds, mixes in hundredths.  One action is *)
(* one event handler or one asynchronous completion, together with the     *)
(* re-render and the effects (cleanup, then body) the handler's state       *)
(* updates cause.  A handler reads the state of the render that created it *)
(* (its closure) and writes refs at once; the record `r` passed to the     *)
(* helpers is that closure, the record `t` the track as it is being        *)
(* updated.                                                                *)
(***************************************************************************)
EXTENDS Integers, Sequences, FiniteSets, TLC

VARIABLES
    tracks,           \* Seq of AudioTrack component states, in display order
    isPlaying,        \* AudioLooper: shared transport flag
    audioContextRef,  \* AudioLooper: TRUE once the shared AudioContext exists
    lastOp,           \* the handler that ran last, and for which track
    master,           \* AudioLooper: the master recording's state and refs
    knob              \* one Knob component: its props, drag state and output

vars == <<tracks, isPlaying, audioContextRef, lastOp, master, knob>>

----------------------------------------------------------------------------
(* Bounds of the exploration *)

\* chains one track may have built and released (each playAudio builds one)
MaxChains == 2
\* clip requests (file loads, recording decodes) issued per track
MaxRequests == 2
\* MediaRecorders one track may create
MaxRecorders == 2
\* getUserMedia calls of one track awaiting their answer
MaxMicRequests == 2
\* width of the waveform canvas in CSS pixels (rect.width)
RectWidth == 200
\* the latest reading of the clock (Date.now()) a session sees
MaxClock == 3
\* tracks of a session whose clips are explored together, and the clip
\* requests and released chains of all of them taken together
MaxTracks == 2
MaxSessionRequests == 3
MaxSessionChains == 1
\* MediaRecorders the session may create for master recordings
MaxMasterRecorders == 2
\* seconds the recording timer counts
MaxRecordingTime == 2
MaxLiveChains == 1

\* a selection no longer than this (0.01 s) is a click
ClickThreshold == 10
\* the most tracks a session holds
TrackCap == 16
\* pixels of pointer travel that sweep a knob over its whole range
sensitivity == 200

\* durations of the clips a decode can produce
Durations == {2000, 4000}
\* values the effect knobs emit, in hundredths (mixes) and Hz (cutoff)
Mixes == {0, 50}
Freqs == {1000, 20000}
\* horizontal pointer offsets from the canvas's left edge; a mouse only
\* reports offsets inside the canvas, a touch keeps reporting outside it
TouchXs == {-50, 50, 150, 250}
MouseXs == {x \in TouchXs : 0 <= x /\ x <= RectWidth}
\* offsets one and two pixels apart, for selections about as long as a click
FineXs == {50, 51, 52}
\* props a Knob is rendered with: min, max, and step in units of
\* 1/sensitivity (0: no quantisation; 0.5, 1 and 3)
KnobMins == {0, 1}
KnobMaxs == {4, 5}
KnobSteps == {0, 100, 200, 600}
\* pointer coordinates during a knob drag, in pixels: clientY, and clientX
\* of a touch
KnobPointers == {-300, -27, 0, 2}
KnobPointerXs == {0, 300}

\* values the tempo knobs emit (min 60, max 200, step 1)
Tempos == {60, 120, 200}

----------------------------------------------------------------------------
(* Values *)

\* audioBuffer === null
NoBuffer == [duration |-> 0, req |-> 0]

\* sourceNodeRef.current === null
NoNode ==
    [src |-> "none", buffer |-> 0, loopStart |-> 0, loopEnd |-> 0,
     filterFreq |-> 0, delayTime |-> 0, delayGain |-> 0, reverbGain |-> 0,
     dryGain |-> 0, made |-> {}, conns |-> {}]

\* dragStart === null: a position is <<time>>
NullPos == <<>>

\* the connections from a chain's track gain to the shared outputs
OutputEdges == {<<"gain", "destination">>, <<"gain", "bus">>}

Max(a, b) == IF a >= b THEN a ELSE b
Min(a, b) == IF a <= b THEN a ELSE b

\* What is left of a chain the component no longer references: the nodes
\* still exist in the context with the connections nothing has removed.
Released(n) == [src |-> n.src, conns |-> n.conns]

\* useState initial values and useRef(null) of one AudioTrack, mounted with
\* the props the parent's render passes
NewTrack(ctx, tempo) ==
    [id |-> 1, audioContext |-> ctx, destinationNode |-> ctx,
     masterTempo |-> tempo, syncToMaster |-> FALSE, trackTempo |-> 120,
     audioBuffer |-> NoBuffer, isLoading |-> FALSE, trackPlaying |-> FALSE,
     loopStart |-> 0, loopEnd |-> 1000,
     reverbAmount |-> 0, delayAmount |-> 0, filterFreq |-> 20000,
     sourceNodeRef |-> NoNode, reverbImpulseRef |-> ctx,
     released |-> <<>>,
     nextReq |-> 1, decodes |-> {},
     isRecording |-> FALSE, mediaRecorderRef |-> 0,
     recordedChunksRef |-> <<>>, micRequests |-> 0, recorders |-> <<>>,
     canvasWidth |-> 0, isDragging |-> FALSE,
     dragStart |-> NullPos, dragEnd |-> NullPos,
     pointer |-> "none", regionChanges |-> <<>>]

\* useState initial values and useRef(null) of AudioLooper's recording:
\* recordedBlob is the sequence of chunks the blob was built from (<<>>:
\* null), a ref is the index of the recorder or timer it holds (0: null)
NewMaster ==
    [masterTempo |-> 120, isRecording |-> FALSE, recordingTime |-> 0,
     recordedBlob |-> <<>>,
     mediaRecorderRef |-> 0, recordedChunksRef |-> <<>>,
     recordingTimerRef |-> 0,
     recorders |-> <<>>, timers |-> <<>>]

\* useState initial values of a Knob rendered with the given props; min,
\* max, step and the values are kept in units of 1/sensitivity so that the
\* drag arithmetic is exact; emitted is the last value passed to onChange
\* and travel the pointer travel of the move that emitted it
NewKnob(min, max, step, value) ==
    [min |-> min, max |-> max, step |-> step, value |-> value,
     isDragging |-> FALSE, startY |-> 0, startX |-> 0, startValue |-> 0,
     emitted |-> <<>>, travel |-> 0]

----------------------------------------------------------------------------
(* AudioTrack: the signal graph *)

\* a mutation of stopAudio: the stopped source stays retained
stopAudioKeepsRef(t) ==
    IF t.sourceNodeRef.src # "none"
    THEN [t EXCEPT
            !.released = Append(@, Released(
                [t.sourceNodeRef EXCEPT
                    !.src = IF @ = "started" THEN "stopped" ELSE @])),
            !.sourceNodeRef.src = IF @ = "started" THEN "stopped" ELSE @,
            !.trackPlaying = FALSE]
    ELSE [t EXCEPT !.trackPlaying = FALSE]

\* a mutation of stopAudio: trackPlaying is left as it was
stopAudioKeepsFlag(t) ==
    IF t.sourceNodeRef.src # "none"
    THEN [t EXCEPT
            !.released = Append(@, Released(
                [t.sourceNodeRef EXCEPT
                    !.src = IF @ = "started" THEN "stopped" ELSE @])),
            !.sourceNodeRef = NoNode]
    ELSE t

\* stopAudio: stop and drop the retained source (a stop() that throws is
\* swallowed: a source never started stays as it was), clear trackPlaying.
stopAudio(t) ==
    IF t.sourceNodeRef.src # "none"
    THEN [t EXCEPT
            !.released = Append(@, Released(
                [t.sourceNodeRef EXCEPT
                    !.src = IF @ = "started" THEN "stopped" ELSE @])),
            !.sourceNodeRef = NoNode,
            !.trackPlaying = FALSE]
    ELSE [t EXCEPT !.trackPlaying = FALSE]

\* a mutation of CreatedNodes: the convolver is created whatever the mix
CreatedNodesAlwaysReverb(r, impulse) ==
    {"source", "gain", "filter", "delay", "delayGain", "reverbGain", "dryGain",
     "reverb"}

\* The nodes setupAudioNodes creates from the closure r; impulse is
\* reverbImpulseRef.current.
CreatedNodes(r, impulse) ==
    {"source", "gain", "filter", "delay", "delayGain", "reverbGain", "dryGain"}
    \cup (IF impulse /\ r.reverbAmount > 0 THEN {"reverb"} ELSE {})

\* a mutation of Connections: the delay path is wired whatever the mix
ConnectionsAlwaysDelay(r, impulse) ==
    {<<"source", "filter">>, <<"filter", "gain">>,
     <<"filter", "delay">>, <<"delay", "delayGain">>, <<"delayGain", "gain">>}
    \cup (IF impulse /\ r.reverbAmount > 0
          THEN {<<"filter", "reverb">>, <<"reverb", "reverbGain">>,
                <<"reverbGain", "gain">>}
          ELSE {})
    \cup {<<"gain", "destination">>}
    \cup (IF r.destinationNode THEN {<<"gain", "bus">>} ELSE {})

\* The connections setupAudioNodes makes from the closure r.
Connections(r, impulse) ==
    {<<"source", "filter">>, <<"filter", "gain">>}
    \cup (IF r.delayAmount > 0
          THEN {<<"filter", "delay">>, <<"delay", "delayGain">>,
                <<"delayGain", "gain">>}
          ELSE {})
    \cup (IF impulse /\ r.reverbAmount > 0
          THEN {<<"filter", "reverb">>, <<"reverb", "reverbGain">>,
                <<"reverbGain", "gain">>}
          ELSE {})
    \cup {<<"gain", "destination">>}
    \cup (IF r.destinationNode THEN {<<"gain", "bus">>} ELSE {})

\* setupAudioNodes: disconnect the retained source if there is one, build a
\* new chain and retain its source.
setupAudioNodes(t, r) ==
    LET old == t.sourceNodeRef
        kept == IF old.src # "none"
                THEN Append(t.released,
                        Released([old EXCEPT
                            !.conns = @ \ {<<"source", "filter">>}]))
                ELSE t.released
    IN  [t EXCEPT
            !.released = kept,
            !.sourceNodeRef =
                [src |-> "created", buffer |-> r.audioBuffer.req,
                 loopStart |-> 0, loopEnd |-> 0,
                 filterFreq |-> r.filterFreq,
                 delayTime |-> r.delayAmount,
                 delayGain |-> IF r.delayAmount > 0 THEN 50 ELSE 0,
                 reverbGain |-> r.reverbAmount,
                 dryGain |-> 100 - Max(r.reverbAmount, 0),
                 made |-> CreatedNodes(r, t.reverbImpulseRef),
                 conns |-> Connections(r, t.reverbImpulseRef)]]

\* a mutation of playAudio: the retained source is not stopped first
playAudioWithoutStop(t, r) ==
    IF ~r.audioContext \/ r.audioBuffer = NoBuffer
    THEN t
    ELSE LET t2 == setupAudioNodes(t, r)
             t3 == [t2 EXCEPT !.sourceNodeRef.loopStart = r.loopStart,
                              !.sourceNodeRef.loopEnd = r.loopEnd]
         IN  IF r.loopStart < 0
             THEN t3
             ELSE [t3 EXCEPT !.sourceNodeRef.src = "started",
                             !.trackPlaying = TRUE]

\* playAudio: stop, rebuild, set the loop points and start at loopStart.
\* start(0, offset) throws a RangeError for a negative offset; the catch
\* leaves the new chain retained and trackPlaying as stopAudio set it.
playAudio(t, r) ==
    IF ~r.audioContext \/ r.audioBuffer = NoBuffer
    THEN t
    ELSE LET t1 == stopAudio(t)
             t2 == setupAudioNodes(t1, r)
             t3 == [t2 EXCEPT !.sourceNodeRef.loopStart = r.loopStart,
                              !.sourceNodeRef.loopEnd = r.loopEnd]
         IN  IF r.loopStart < 0
             THEN t3
             ELSE [t3 EXCEPT !.sourceNodeRef.src = "started",
                             !.trackPlaying = TRUE]

----------------------------------------------------------------------------
(* AudioTrack: effects run after a render *)

\* useEffect [audioContext]: create the reverb impulse once a context is there
ImpulseEffect(t) ==
    IF t.audioContext /\ ~t.reverbImpulseRef
    THEN [t EXCEPT !.reverbImpulseRef = TRUE]
    ELSE t

\* a mutation of TempoEffect: the master's tempo is no dependency
TempoEffectOnSyncOnly(old, t) ==
    IF old.syncToMaster = t.syncToMaster
    THEN t
    ELSE IF t.syncToMaster
         THEN [t EXCEPT !.trackTempo = t.masterTempo]
         ELSE t

\* useEffect [masterTempo, syncToMaster]: when a dependency changed and the
\* track follows the master, take the master's tempo
TempoEffect(old, t) ==
    IF <<old.masterTempo, old.syncToMaster>> = <<t.masterTempo, t.syncToMaster>>
    THEN t
    ELSE IF t.syncToMaster
         THEN [t EXCEPT !.trackTempo = t.masterTempo]
         ELSE t

\* a mutation of PlayDeps: the effect parameters are no dependencies
PlayDepsWithoutEffects(t, playing) ==
    <<playing, t.audioBuffer, t.loopStart, t.loopEnd>>

\* the dependency list of the play/stop effect
PlayDeps(t, playing) ==
    <<playing, t.audioBuffer, t.loopStart, t.loopEnd,
      t.reverbAmount, t.delayAmount, t.filterFreq>>

\* a mutation of PlayEffect: the body never starts playback
PlayEffectStopsOnly(old, oldPlaying, t, playing) ==
    IF PlayDeps(old, oldPlaying) = PlayDeps(t, playing)
    THEN t
    ELSE stopAudio(stopAudio(t))

\* useEffect [isPlaying, audioBuffer, loopStart, ...]: when a dependency
\* changed, the previous run's cleanup (stopAudio), then the body.
PlayEffect(old, oldPlaying, t, playing) ==
    IF PlayDeps(old, oldPlaying) = PlayDeps(t, playing)
    THEN t
    ELSE LET t1 == stopAudio(t)
         IN  IF playing /\ t1.audioBuffer # NoBuffer /\ t1.audioContext
             THEN playAudio(t1, t1)
             ELSE IF ~playing THEN stopAudio(t1) ELSE t1

\* WaveformDisplay, mounted while there is a clip: its draw effect stores
\* the canvas's width
DrawEffect(t) ==
    IF t.audioBuffer # NoBuffer
    THEN [t EXCEPT !.canvasWidth = RectWidth]
    ELSE t

\* A render of one track after its state or props changed from `old`
\* (rendered under transport flag oldPlaying) to `t`: the effects of
\* WaveformDisplay (the child) first, then AudioTrack's in source order.
Render(old, oldPlaying, t, playing) ==
    PlayEffect(old, oldPlaying,
               TempoEffect(old, ImpulseEffect(DrawEffect(t))), playing)

\* A render of AudioLooper: every track gets the refs' current values, the
\* master tempo and the new transport flag as props.
RenderAll(ts, oldPlaying, playing, ctx, tempo) ==
    [i \in DOMAIN ts |->
        Render(ts[i], oldPlaying,
               [ts[i] EXCEPT !.audioContext = ctx, !.destinationNode = ctx,
                             !.masterTempo = tempo],
               playing)]

RECURSIVE SessionRequests(_, _), SessionChains(_, _)

\* every track stays within the exploration's bounds
WithinBounds(ts) ==
    \A i \in DOMAIN ts :
        /\ Len(ts[i].released) <= MaxChains
        /\ Len(ts[i].recorders) <= MaxRecorders
        /\ ts[i].micRequests <= MaxMicRequests

HasClip(t) == t.audioBuffer # NoBuffer

\* The state of the track state machine: Playing with a clip, a started
\* retained source and the flag set; Loaded or Empty with no retained source
\* and the flag clear; anything else is none of the machine's states.
TrackState(t) ==
    IF HasClip(t) /\ t.trackPlaying /\ t.sourceNodeRef.src = "started"
    THEN "Playing"
    ELSE IF ~t.trackPlaying /\ t.sourceNodeRef = NoNode
         THEN IF HasClip(t) THEN "Loaded" ELSE "Empty"
         ELSE "Undefined"

\* the record of a handler run: its name, its track (0: the session), every
\* track's state before it, whether it threw out of the handler
Op(name, i) ==
    [op |-> name, track |-> i, threw |-> FALSE,
     from |-> [k \in DOMAIN tracks |-> TrackState(tracks[k])]]

\* a handler of track i took the track from the rendered state to t
TrackStep(i, t, name) ==
    /\ tracks' = [tracks EXCEPT ![i] = Render(tracks[i], isPlaying, t, isPlaying)]
    /\ WithinBounds(tracks')
    /\ lastOp' = Op(name, i)
    /\ UNCHANGED <<isPlaying, audioContextRef, master, knob>>

----------------------------------------------------------------------------
(* AudioLooper *)

\* the window's first click or touchstart creates the context and the
\* recording destination; nothing is rendered
initAudioContext ==
    /\ ~audioContextRef
    /\ audioContextRef' = TRUE
    /\ lastOp' = Op("initAudioContext", 0)
    /\ UNCHANGED <<tracks, isPlaying, master, knob>>

\* setIsPlaying(v): a render only when the flag changes
SetIsPlaying(v, name) ==
    /\ isPlaying' = v
    /\ tracks' = IF v = isPlaying
                 THEN tracks
                 ELSE RenderAll(tracks, isPlaying, v, audioContextRef,
                                master.masterTempo)
    /\ WithinBounds(tracks')
    /\ lastOp' = Op(name, 0)
    /\ UNCHANGED <<audioContextRef, master, knob>>

handleMasterPlay == SetIsPlaying(TRUE, "handleMasterPlay")

handleMasterStop == SetIsPlaying(FALSE, "handleMasterStop")

\* readings of Date.now(): the clock does not run backwards, so a reading
\* is no earlier than the one the last added track got as its id
ClockReadings == 1 .. MaxClock

\* a mutation of addTrack: no cap
addTrackUncapped ==
    \E now \in ClockReadings :
        /\ now >= tracks[Len(tracks)].id
        /\ tracks' = Append(RenderAll(tracks, isPlaying, isPlaying,
                                      audioContextRef, master.masterTempo),
                            [NewTrack(audioContextRef, master.masterTempo)
                                EXCEPT !.id = now])
        /\ lastOp' = Op("addTrack", 0)
        /\ UNCHANGED <<isPlaying, audioContextRef, master, knob>>

\* addTrack: below the cap, append a track whose id is the clock's reading;
\* AudioLooper renders, the new AudioTrack mounts with the refs' values
addTrack ==
    \E now \in ClockReadings :
        /\ now >= tracks[Len(tracks)].id
        /\ tracks' =
                IF Len(tracks) < TrackCap
                THEN Append(RenderAll(tracks, isPlaying, isPlaying,
                                      audioContextRef, master.masterTempo),
                            [NewTrack(audioContextRef, master.masterTempo)
                                EXCEPT !.id = now])
                ELSE tracks
        /\ lastOp' = Op("addTrack", 0)
        /\ UNCHANGED <<isPlaying, audioContextRef, master, knob>>

----------------------------------------------------------------------------
(* AudioLooper: recording the mix *)

\* the useState values of AudioLooper's recording; a change renders
MasterState(m) ==
    <<m.masterTempo, m.isRecording, m.recordingTime, m.recordedBlob>>

\* clearInterval(recordingTimerRef.current); recordingTimerRef.current = null
ClearTimer(m) ==
    IF m.recordingTimerRef # 0
    THEN [m EXCEPT !.timers[m.recordingTimerRef] = "cleared",
                   !.recordingTimerRef = 0]
    ELSE m

\* a handler or callback of AudioLooper took its recording state to m and
\* the transport flag to playing; AudioLooper renders if its state changed
MasterStep(m, playing, name) ==
    /\ master' = m
    /\ isPlaying' = playing
    /\ tracks' = IF MasterState(m) # MasterState(master) \/ playing # isPlaying
                 THEN RenderAll(tracks, isPlaying, playing, audioContextRef,
                                m.masterTempo)
                 ELSE tracks
    /\ WithinBounds(tracks')
    /\ Len(m.recorders) <= MaxMasterRecorders
    /\ m.recordingTime <= MaxRecordingTime
    /\ lastOp' = Op(name, 0)
    /\ UNCHANGED <<audioContextRef, knob>>

\* the master tempo knob: onChange stores the emitted value
setMasterTempo ==
    \E v \in Tempos :
        MasterStep([master EXCEPT !.masterTempo = v], isPlaying,
                   "setMasterTempo")

\* a mutation of startMasterRecording: no test of the recording flag
startMasterRecordingUnguarded ==
    \E ok \in BOOLEAN :
        LET m0 == [master EXCEPT !.recordedChunksRef = <<>>,
                                 !.recordingTime = 0,
                                 !.recordedBlob = <<>>]
        IN  IF ~audioContextRef
            THEN /\ ok
                 /\ MasterStep(master, isPlaying, "startMasterRecording")
            ELSE IF ~ok
                 THEN MasterStep(m0, isPlaying, "startMasterRecording")
                 ELSE MasterStep(
                        [m0 EXCEPT
                            !.recorders = Append(@, "recording"),
                            !.mediaRecorderRef = Len(master.recorders) + 1,
                            !.isRecording = TRUE,
                            !.timers = Append(@, "live"),
                            !.recordingTimerRef = Len(master.timers) + 1],
                        TRUE, "startMasterRecording")

\* a mutation of startMasterRecording: the transport is left as it was
startMasterRecordingKeepsTransport ==
    \E ok \in BOOLEAN :
        LET m0 == [master EXCEPT !.recordedChunksRef = <<>>,
                                 !.recordingTime = 0,
                                 !.recordedBlob = <<>>]
        IN  IF ~audioContextRef \/ master.isRecording
            THEN /\ ok
                 /\ MasterStep(master, isPlaying, "startMasterRecording")
            ELSE IF ~ok
                 THEN MasterStep(m0, isPlaying, "startMasterRecording")
                 ELSE MasterStep(
                        [m0 EXCEPT
                            !.recorders = Append(@, "recording"),
                            !.mediaRecorderRef = Len(master.recorders) + 1,
                            !.isRecording = TRUE,
                            !.timers = Append(@, "live"),
                            !.recordingTimerRef = Len(master.timers) + 1],
                        isPlaying, "startMasterRecording")

\* startMasterRecording: nothing without a context or while recording;
\* else reset chunks, time and blob, create and start a recorder (either
\* may throw: the catch logs), set the flags, start the timer
startMasterRecording ==
    \E ok \in BOOLEAN :
        LET m0 == [master EXCEPT !.recordedChunksRef = <<>>,
                                 !.recordingTime = 0,
                                 !.recordedBlob = <<>>]
        IN  IF ~audioContextRef \/ master.isRecording
            THEN /\ ok
                 /\ MasterStep(master, isPlaying, "startMasterRecording")
            ELSE IF ~ok
                 THEN MasterStep(m0, isPlaying, "startMasterRecording")
                 ELSE MasterStep(
                        [m0 EXCEPT
                            !.recorders = Append(@, "recording"),
                            !.mediaRecorderRef = Len(master.recorders) + 1,
                            !.isRecording = TRUE,
                            !.timers = Append(@, "live"),
                            !.recordingTimerRef = Len(master.timers) + 1],
                        TRUE, "startMasterRecording")

\* the interval's callback: one more second
tick ==
    \E k \in DOMAIN master.timers :
        /\ master.timers[k] = "live"
        /\ MasterStep([master EXCEPT !.recordingTime = @ + 1], isPlaying,
                      "tick")

\* the browser ends a recording by itself (a recorder error): the recorder
\* is inactive, its dataavailable and stop events are queued; no handler of
\* the component runs
masterRecorderError ==
    \E k \in DOMAIN master.recorders :
        /\ master.recorders[k] = "recording"
        /\ MasterStep([master EXCEPT !.recorders[k] = "stopping"], isPlaying,
                      "masterRecorderError")

\* stopMasterRecording: nothing without a recorder or when not recording;
\* else stop the recorder, clear the flag and the timer.  stop() on a
\* recorder that is already inactive throws in some browsers and returns in
\* others: the catch clears the flag only.
stopMasterRecording ==
    LET k == master.mediaRecorderRef IN
    IF k = 0 \/ ~master.isRecording
    THEN MasterStep(master, isPlaying, "stopMasterRecording")
    ELSE \E threw \in BOOLEAN :
            /\ threw => master.recorders[k] # "recording"
            /\ MasterStep(
                    IF threw
                    THEN [master EXCEPT !.isRecording = FALSE]
                    ELSE ClearTimer([master EXCEPT
                            !.recorders[k] =
                                IF @ = "recording" THEN "stopping" ELSE @,
                            !.isRecording = FALSE]),
                    isPlaying, "stopMasterRecording")

\* the task a stopped recorder queues: dataavailable (pushed when not
\* empty), then onstop: nothing without chunks, else the blob of the chunks
\* becomes the artifact and the timer is cleared
masterRecorderStopped ==
    \E k \in DOMAIN master.recorders :
    \E size \in {0, 1} :
        /\ master.recorders[k] = "stopping"
        /\ LET chunks == IF size > 0
                         THEN Append(master.recordedChunksRef, k)
                         ELSE master.recordedChunksRef
               m1 == [master EXCEPT !.recorders[k] = "inactive",
                                    !.recordedChunksRef = chunks]
           IN  MasterStep(
                    IF chunks = <<>>
                    THEN m1
                    ELSE ClearTimer([m1 EXCEPT !.recordedBlob = chunks]),
                    isPlaying, "masterRecorderStopped")

----------------------------------------------------------------------------
(* AudioTrack: handlers *)

\* handleFileUpload: with a file and a context, set the loading flag and
\* start reading; the input is disabled while loading
handleFileUpload(i) ==
    LET t == tracks[i] IN
    /\ ~t.isLoading
    /\ t.audioContext
    /\ t.nextReq <= MaxRequests
    /\ \E d \in Durations \cup {0} :
        TrackStep(i,
            [t EXCEPT !.isLoading = TRUE,
                      !.nextReq = @ + 1,
                      !.decodes = @ \cup {[kind |-> "file", req |-> t.nextReq,
                                           duration |-> d]}],
            "handleFileUpload")

\* reader.onload, decodeAudioData resolved: install the clip, set loopEnd,
\* clear the loading flag
fileDecoded(i) ==
    LET t == tracks[i] IN
    \E p \in t.decodes :
        /\ p.kind = "file"
        /\ p.duration > 0
        /\ TrackStep(i,
            [t EXCEPT !.decodes = @ \ {p},
                      !.audioBuffer = [duration |-> p.duration, req |-> p.req],
                      !.loopEnd = p.duration,
                      !.isLoading = FALSE],
            "fileDecoded")

\* a mutation of fileDecodeFailed: the loading flag stays set
fileDecodeFailedKeepsLoading(i) ==
    LET t == tracks[i] IN
    \E p \in t.decodes :
        /\ p.kind = "file"
        /\ p.duration = 0
        /\ TrackStep(i, [t EXCEPT !.decodes = @ \ {p}], "fileDecodeFailed")

\* reader.onload, decodeAudioData rejected, or reader.onerror: clear the
\* loading flag only
fileDecodeFailed(i) ==
    LET t == tracks[i] IN
    \E p \in t.decodes :
        /\ p.kind = "file"
        /\ p.duration = 0
        /\ TrackStep(i,
            [t EXCEPT !.decodes = @ \ {p}, !.isLoading = FALSE],
            "fileDecodeFailed")

\* Play button (disabled without a clip)
handleTrackPlay(i) ==
    LET t == tracks[i] IN
    /\ t.audioBuffer # NoBuffer
    /\ TrackStep(i,
        IF t.audioContext THEN playAudio(t, t) ELSE t,
        "handleTrackPlay")

\* Stop button (disabled unless trackPlaying)
handleTrackStop(i) ==
    /\ tracks[i].trackPlaying
    /\ TrackStep(i, stopAudio(tracks[i]), "handleTrackStop")

\* effect knobs: onChange stores the emitted value
setReverbAmount(i) ==
    \E v \in Mixes :
        TrackStep(i, [tracks[i] EXCEPT !.reverbAmount = v], "setReverbAmount")

setDelayAmount(i) ==
    \E v \in Mixes :
        TrackStep(i, [tracks[i] EXCEPT !.delayAmount = v], "setDelayAmount")

setFilterFreq(i) ==
    \E v \in Freqs :
        TrackStep(i, [tracks[i] EXCEPT !.filterFreq = v], "setFilterFreq")

\* Sync button: toggle following the master's tempo
setSyncToMaster(i) ==
    TrackStep(i, [tracks[i] EXCEPT !.syncToMaster = ~@], "setSyncToMaster")

\* the track's tempo knob, rendered while the track does not follow the
\* master: onChange stores the emitted value
setTrackTempo(i) ==
    /\ ~tracks[i].syncToMaster
    /\ \E v \in Tempos :
        TrackStep(i, [tracks[i] EXCEPT !.trackTempo = v], "setTrackTempo")

\* Reset button (disabled without a clip): stop the retained source, then
\* playAudio.  stop() on a source never started throws out of the handler.
handleReset(i) ==
    LET t == tracks[i] IN
    /\ t.audioBuffer # NoBuffer
    /\ IF t.sourceNodeRef.src = "created"
       THEN /\ lastOp' = [Op("handleReset", i) EXCEPT !.threw = TRUE]
            /\ UNCHANGED <<tracks, isPlaying, audioContextRef, master, knob>>
       ELSE TrackStep(i,
                IF t.sourceNodeRef.src # "none"
                THEN playAudio([t EXCEPT !.sourceNodeRef.src = "stopped"], t)
                ELSE t,
                "handleReset")

\* handleLoopRegionChange: store the region; when the track is playing,
\* playAudio from this render's closure.  regionChanges lists the calls
\* received since the last press on the waveform.
handleLoopRegionChange(t, start, end) ==
    LET t1 == [t EXCEPT !.loopStart = start, !.loopEnd = end,
                        !.regionChanges = Append(@, <<start, end>>)]
    IN  IF t.trackPlaying /\ t.sourceNodeRef.src # "none"
        THEN playAudio(t1, t)
        ELSE t1

----------------------------------------------------------------------------
(* WaveformDisplay *)

\* getPositionFromEvent: pixel offset to time, linear over the canvas width
getPositionFromEvent(t, x) == (x * t.audioBuffer.duration) \div t.canvasWidth

\* The pointer that is down on the canvas ("none", "mouse", "touch") is the
\* environment's: a touch moves and ends only after it started, a mouse
\* moves over the canvas and leaves it pressed or not.

\* handleMouseDown / handleTouchStart: begin a drag at the pointer
BeginDrag(i, xs, kind, name) ==
    LET t == tracks[i] IN
    /\ t.audioBuffer # NoBuffer
    /\ t.pointer = "none"
    /\ \E x \in xs :
        TrackStep(i,
            [t EXCEPT !.isDragging = TRUE,
                      !.dragStart = <<getPositionFromEvent(t, x)>>,
                      !.dragEnd = <<getPositionFromEvent(t, x)>>,
                      !.pointer = kind,
                      !.regionChanges = <<>>],
            name)

\* handleMouseMove / handleTouchMove: while dragging, follow the pointer
MoveDrag(i, xs, kinds, name) ==
    LET t == tracks[i] IN
    /\ t.audioBuffer # NoBuffer
    /\ t.pointer \in kinds
    /\ \E x \in xs :
        TrackStep(i,
            IF ~t.isDragging \/ t.dragStart = NullPos
            THEN t
            ELSE [t EXCEPT !.dragEnd = <<getPositionFromEvent(t, x)>>],
            name)

\* a mutation of EndDrag: the selection is reported from press to last move
EndDragUnordered(i, kinds, name) ==
    LET t == tracks[i]
        t1 == IF t.isDragging /\ t.dragStart # NullPos /\ t.dragEnd # NullPos
              THEN LET a == t.dragStart[1]
                       b == t.dragEnd[1]
                   IN  IF Max(a, b) - Min(a, b) > ClickThreshold
                       THEN handleLoopRegionChange(t, a, b)
                       ELSE t
              ELSE t
    IN  /\ t.audioBuffer # NoBuffer
        /\ t.pointer \in kinds
        /\ TrackStep(i, [t1 EXCEPT !.isDragging = FALSE, !.pointer = "none"],
                     name)

\* a mutation of EndDrag: every selection that is not empty is reported
EndDragNoThreshold(i, kinds, name) ==
    LET t == tracks[i]
        t1 == IF t.isDragging /\ t.dragStart # NullPos /\ t.dragEnd # NullPos
              THEN LET a == t.dragStart[1]
                       b == t.dragEnd[1]
                   IN  IF Max(a, b) - Min(a, b) > 0
                       THEN handleLoopRegionChange(t, Min(a, b), Max(a, b))
                       ELSE t
              ELSE t
    IN  /\ t.audioBuffer # NoBuffer
        /\ t.pointer \in kinds
        /\ TrackStep(i, [t1 EXCEPT !.isDragging = FALSE, !.pointer = "none"],
                     name)

\* handleMouseUp (also bound to mouse leave) / handleTouchEnd: report the
\* selection when it is longer than 0.01 s, end the drag
EndDrag(i, kinds, name) ==
    LET t == tracks[i]
        t1 == IF t.isDragging /\ t.dragStart # NullPos /\ t.dragEnd # NullPos
              THEN LET a == t.dragStart[1]
                       b == t.dragEnd[1]
                   IN  IF Max(a, b) - Min(a, b) > ClickThreshold
                       THEN handleLoopRegionChange(t, Min(a, b), Max(a, b))
                       ELSE t
              ELSE t
    IN  /\ t.audioBuffer # NoBuffer
        /\ t.pointer \in kinds
        /\ TrackStep(i, [t1 EXCEPT !.isDragging = FALSE, !.pointer = "none"],
                     name)

handleMouseDown(i) == BeginDrag(i, MouseXs, "mouse", "handleMouseDown")

handleMouseMove(i) == MoveDrag(i, MouseXs, {"none", "mouse"}, "handleMouseMove")

handleMouseUp(i) == EndDrag(i, {"none", "mouse"}, "handleMouseUp")

handleTouchStart(i) == BeginDrag(i, MouseXs, "touch", "handleTouchStart")

handleTouchMove(i) == MoveDrag(i, TouchXs, {"touch"}, "handleTouchMove")

handleTouchEnd(i) == EndDrag(i, {"touch"}, "handleTouchEnd")

----------------------------------------------------------------------------
(* Knob *)

\* a mutation of RoundToStep: Math.floor in place of Math.round
FloorToStep(v, step) == (v \div step) * step

\* Math.round(v / step) * step for step > 0: halves round up
RoundToStep(v, step) == ((2 * v + step) \div (2 * step)) * step

\* the value a move emits for pointer travel delta (pixels) from startValue:
\* startValue - delta / sensitivity * (max - min), clamped to [min, max],
\* then rounded to the step when the step is not 0
NewValue(k, delta) ==
    LET raw == k.startValue - (delta * (k.max - k.min)) \div sensitivity
        clamped == Max(k.min, Min(k.max, raw))
    IN  IF k.step # 0 THEN RoundToStep(clamped, k.step) ELSE clamped

\* a handler of the knob took it to k
KnobStep(k, name) ==
    /\ knob' = k
    /\ lastOp' = Op(name, 0)
    /\ UNCHANGED <<tracks, isPlaying, audioContextRef, master>>

\* Knob's handleMouseDown / handleTouchStart: begin a drag from the value
BeginKnobDrag(name) ==
    \E x \in KnobPointerXs, y \in KnobPointers :
        KnobStep([knob EXCEPT !.isDragging = TRUE, !.startY = y, !.startX = x,
                              !.startValue = knob.value],
                 name)

\* a move over pointer travel delta: onChange(newValue), the parent stores
\* the value and renders the knob with it
EmitKnobValue(delta, name) ==
    KnobStep([knob EXCEPT !.value = NewValue(knob, delta),
                          !.emitted = <<NewValue(knob, delta)>>,
                          !.travel = delta],
             name)

\* Knob's handleMouseMove, bound to the document while dragging
KnobHandleMouseMove ==
    /\ knob.isDragging
    /\ \E y \in KnobPointers :
        EmitKnobValue(y - knob.startY, "Knob.handleMouseMove")

\* Knob's handleTouchMove: the larger of the vertical and the horizontal
\* travel, the horizontal one reversed
KnobHandleTouchMove ==
    /\ knob.isDragging
    /\ \E x \in KnobPointerXs, y \in KnobPointers :
        LET deltaY == y - knob.startY
            deltaX == x - knob.startX
            delta == IF Max(deltaY, -deltaY) > Max(deltaX, -deltaX)
                     THEN deltaY ELSE -deltaX
        IN  EmitKnobValue(delta, "Knob.handleTouchMove")

\* Knob's handleMouseUp / handleTouchEnd, bound to the document while
\* dragging
EndKnobDrag(name) ==
    /\ knob.isDragging
    /\ KnobStep([knob EXCEPT !.isDragging = FALSE], name)

KnobHandleMouseDown == BeginKnobDrag("Knob.handleMouseDown")

KnobHandleTouchStart == BeginKnobDrag("Knob.handleTouchStart")

KnobHandleMouseUp == EndKnobDrag("Knob.handleMouseUp")

KnobHandleTouchEnd == EndKnobDrag("Knob.handleTouchEnd")

----------------------------------------------------------------------------
(* AudioTrack: recording to the clip *)

\* startRecording, up to its await: ask for the microphone
startRecording(i) ==
    LET t == tracks[i] IN
    /\ ~t.isRecording
    /\ t.audioContext
    /\ TrackStep(i, [t EXCEPT !.micRequests = @ + 1], "startRecording")

\* getUserMedia resolved: a new recorder is retained, the chunks are reset,
\* the recorder started
micGranted(i) ==
    LET t == tracks[i] IN
    /\ t.micRequests > 0
    /\ TrackStep(i,
        [t EXCEPT !.micRequests = @ - 1,
                  !.recorders = Append(@, "recording"),
                  !.mediaRecorderRef = Len(t.recorders) + 1,
                  !.recordedChunksRef = <<>>,
                  !.isRecording = TRUE],
        "micGranted")

\* getUserMedia rejected: the catch logs
micDenied(i) ==
    LET t == tracks[i] IN
    /\ t.micRequests > 0
    /\ TrackStep(i, [t EXCEPT !.micRequests = @ - 1], "micDenied")

\* stopRecording: stop the retained recorder (a throwing stop() is caught),
\* clear isRecording
stopRecording(i) ==
    LET t == tracks[i]
        k == t.mediaRecorderRef
    IN  /\ t.isRecording
        /\ TrackStep(i,
            IF k # 0
            THEN [t EXCEPT !.isRecording = FALSE,
                           !.recorders[k] =
                                IF @ = "recording" THEN "stopping" ELSE @]
            ELSE t,
            "stopRecording")

\* the task a stopped recorder queues: dataavailable (pushed when not
\* empty), then onstop: nothing without chunks, else decode their blob
recorderStopped(i) ==
    LET t == tracks[i] IN
    \E k \in DOMAIN t.recorders :
    \E size \in {0, 1} :
    \E d \in Durations \cup {0} :
        /\ t.recorders[k] = "stopping"
        /\ LET chunks == IF size > 0
                         THEN Append(t.recordedChunksRef, k)
                         ELSE t.recordedChunksRef
               t1 == [t EXCEPT !.recorders[k] = "inactive",
                               !.recordedChunksRef = chunks]
           IN  IF chunks = <<>>
               THEN /\ d = 0
                    /\ TrackStep(i, t1, "recorderStopped")
               ELSE /\ t.nextReq <= MaxRequests
                    /\ TrackStep(i,
                        [t1 EXCEPT
                            !.nextReq = @ + 1,
                            !.decodes = @ \cup
                                {[kind |-> "rec", req |-> t.nextReq,
                                  duration |-> d]}],
                        "recorderStopped")

\* onstop, decodeAudioData resolved: install the clip, set loopEnd
recordingDecoded(i) ==
    LET t == tracks[i] IN
    \E p \in t.decodes :
        /\ p.kind = "rec"
        /\ p.duration > 0
        /\ TrackStep(i,
            [t EXCEPT !.decodes = @ \ {p},
                      !.audioBuffer = [duration |-> p.duration, req |-> p.req],
                      !.loopEnd = p.duration],
            "recordingDecoded")

\* onstop, decodeAudioData rejected: the catch logs
recordingDecodeFailed(i) ==
    LET t == tracks[i] IN
    \E p \in t.decodes :
        /\ p.kind = "rec"
        /\ p.duration = 0
        /\ TrackStep(i, [t EXCEPT !.decodes = @ \ {p}], "recordingDecodeFailed")

----------------------------------------------------------------------------
(* Specifications *)

\* AudioLooper's first render: one track, no context yet
Init ==
    /\ tracks = <<NewTrack(FALSE, NewMaster.masterTempo)>>
    /\ isPlaying = FALSE
    /\ audioContextRef = FALSE
    /\ lastOp = Op("mount", 0)
    /\ master = NewMaster
    /\ knob = NewKnob(60 * sensitivity, 200 * sensitivity, sensitivity,
                      120 * sensitivity)

\* the session, transport and clip loading every specification shares
Transport ==
    \/ initAudioContext
    \/ handleMasterPlay
    \/ handleMasterStop
    \/ \E i \in DOMAIN tracks : handleFileUpload(i)
    \/ \E i \in DOMAIN tracks : fileDecoded(i)
    \/ \E i \in DOMAIN tracks : fileDecodeFailed(i)
    \/ \E i \in DOMAIN tracks : handleTrackPlay(i)
    \/ \E i \in DOMAIN tracks : handleTrackStop(i)
    \/ \E i \in DOMAIN tracks : handleReset(i)

\* the effect knobs
Effects ==
    \/ \E i \in DOMAIN tracks : setReverbAmount(i)
    \/ \E i \in DOMAIN tracks : setDelayAmount(i)
    \/ \E i \in DOMAIN tracks : setFilterFreq(i)

\* the waveform's gestures
Gestures ==
    \/ \E i \in DOMAIN tracks : handleMouseDown(i)
    \/ \E i \in DOMAIN tracks : handleMouseMove(i)
    \/ \E i \in DOMAIN tracks : handleMouseUp(i)
    \/ \E i \in DOMAIN tracks : handleTouchStart(i)
    \/ \E i \in DOMAIN tracks : handleTouchMove(i)
    \/ \E i \in DOMAIN tracks : handleTouchEnd(i)

\* recording a track's clip from the microphone
Recording ==
    \/ \E i \in DOMAIN tracks : startRecording(i)
    \/ \E i \in DOMAIN tracks : micGranted(i)
    \/ \E i \in DOMAIN tracks : micDenied(i)
    \/ \E i \in DOMAIN tracks : stopRecording(i)
    \/ \E i \in DOMAIN tracks : recorderStopped(i)
    \/ \E i \in DOMAIN tracks : recordingDecoded(i)
    \/ \E i \in DOMAIN tracks : recordingDecodeFailed(i)

\* transport, clips and the signal graph under the effect knobs
Next == Transport \/ Effects

Spec == Init /\ [][Next]_vars

\* transport, clips and the loop region under the waveform's gestures
NextRegion == Transport \/ Gestures

SpecRegion == Init /\ [][NextRegion]_vars

\* transport and clips from files and from recordings
NextRecord == Transport \/ Recording

SpecRecord == Init /\ [][NextRecord]_vars

\* the track list up to its cap, every track Empty
NextTracks ==
    \/ initAudioContext
    \/ handleMasterPlay
    \/ handleMasterStop
    \/ addTrack

SpecTracks == Init /\ [][NextTracks]_vars

\* the clip requests issued and the chains released by the first n tracks
SessionRequests(ts, n) ==
    IF n = 0 THEN 0 ELSE SessionRequests(ts, n - 1) + ts[n].nextReq - 1

SessionChains(ts, n) ==
    IF n = 0 THEN 0 ELSE SessionChains(ts, n - 1) + Len(ts[n].released)

\* the session stays within the exploration's bounds
SessionWithinBounds(ts) ==
    /\ Len(ts) <= MaxTracks
    /\ SessionRequests(ts, Len(ts)) <= MaxSessionRequests
    /\ SessionChains(ts, Len(ts)) <= MaxSessionChains

\* a session of several tracks under the master transport, their clips
\* loaded from files
NextSession ==
    \/ initAudioContext
    \/ handleMasterPlay /\ SessionWithinBounds(tracks')
    \/ handleMasterStop /\ SessionWithinBounds(tracks')
    \/ addTrack /\ SessionWithinBounds(tracks')
    \/ \E i \in DOMAIN tracks :
            handleFileUpload(i) /\ SessionWithinBounds(tracks')
    \/ \E i \in DOMAIN tracks :
            fileDecoded(i) /\ SessionWithinBounds(tracks')
    \/ \E i \in DOMAIN tracks : fileDecodeFailed(i)

SpecSession == Init /\ [][NextSession]_vars

\* recording the mix of a track under the master transport
NextMaster ==
    \/ initAudioContext
    \/ handleMasterPlay
    \/ handleMasterStop
    \/ startMasterRecording
    \/ stopMasterRecording
    \/ masterRecorderStopped
    \/ tick
    \/ \E i \in DOMAIN tracks : handleFileUpload(i)
    \/ \E i \in DOMAIN tracks : fileDecoded(i)
    \/ \E i \in DOMAIN tracks : fileDecodeFailed(i)

SpecMaster == Init /\ [][NextMaster]_vars

\* the master recording's timer, with recorders the browser may end
NextTimer ==
    \/ initAudioContext
    \/ startMasterRecording
    \/ stopMasterRecording
    \/ masterRecorderStopped
    \/ masterRecorderError
    \/ tick

SpecTimer == Init /\ [][NextTimer]_vars

\* the waveform's gestures at pixel resolution, on a clip that is loaded,
\* played and replaced
NextGesture ==
    \/ initAudioContext
    \/ handleMasterPlay
    \/ handleMasterStop
    \/ \E i \in DOMAIN tracks : handleFileUpload(i)
    \/ \E i \in DOMAIN tracks : fileDecoded(i)
    \/ \E i \in DOMAIN tracks : handleTrackPlay(i)
    \/ \E i \in DOMAIN tracks :
            BeginDrag(i, FineXs, "mouse", "handleMouseDown")
    \/ \E i \in DOMAIN tracks :
            MoveDrag(i, FineXs, {"none", "mouse"}, "handleMouseMove")
    \/ \E i \in DOMAIN tracks : handleMouseUp(i)
    \/ \E i \in DOMAIN tracks :
            BeginDrag(i, FineXs, "touch", "handleTouchStart")
    \/ \E i \in DOMAIN tracks :
            MoveDrag(i, FineXs, {"touch"}, "handleTouchMove")
    \/ \E i \in DOMAIN tracks : handleTouchEnd(i)

SpecGesture == Init /\ [][NextGesture]_vars

\* the tempo of several tracks that follow the master or do not
NextTempo ==
    \/ initAudioContext
    \/ addTrack /\ Len(tracks') <= MaxTracks
    \/ setMasterTempo
    \/ \E i \in DOMAIN tracks : setSyncToMaster(i)
    \/ \E i \in DOMAIN tracks : setTrackTempo(i)

SpecTempo == Init /\ [][NextTempo]_vars

\* every way a track's source is started, stopped or replaced: transport,
\* own buttons, clip loads, an effect knob, touch selections
\* the chains the session's tracks have released stay within the bound
LiveWithinBounds(ts) == \A i \in DOMAIN ts : Len(ts[i].released) <= MaxLiveChains

NextLive ==
    \/ initAudioContext
    \/ handleMasterPlay
            /\ LiveWithinBounds(tracks')
    \/ handleMasterStop
            /\ LiveWithinBounds(tracks')
    \/ \E i \in DOMAIN tracks : handleFileUpload(i)
            /\ LiveWithinBounds(tracks')
    \/ \E i \in DOMAIN tracks : fileDecoded(i)
            /\ LiveWithinBounds(tracks')
    \/ \E i \in DOMAIN tracks : handleTrackPlay(i)
            /\ LiveWithinBounds(tracks')
    \/ \E i \in DOMAIN tracks : handleTrackStop(i)
            /\ LiveWithinBounds(tracks')
    \/ \E i \in DOMAIN tracks : handleReset(i)
            /\ LiveWithinBounds(tracks')
    \/ \E i \in DOMAIN tracks : setReverbAmount(i)
            /\ LiveWithinBounds(tracks')
    \/ \E i \in DOMAIN tracks :
            BeginDrag(i, {50}, "touch", "handleTouchStart")
            /\ LiveWithinBounds(tracks')
    \/ \E i \in DOMAIN tracks :
            MoveDrag(i, {-50, 150}, {"touch"}, "handleTouchMove")
            /\ LiveWithinBounds(tracks')
    \/ \E i \in DOMAIN tracks : handleTouchEnd(i)
            /\ LiveWithinBounds(tracks')

SpecLive == Init /\ [][NextLive]_vars

\* a Knob rendered with any of the props, its value at min, or the master
\* tempo knob (min 60, max 200, step 1) at 120
InitKnob ==
    /\ tracks = <<NewTrack(FALSE, NewMaster.masterTempo)>>
    /\ isPlaying = FALSE
    /\ audioContextRef = FALSE
    /\ lastOp = Op("mount", 0)
    /\ master = NewMaster
    /\ \/ \E min \in KnobMins, max \in KnobMaxs, step \in KnobSteps :
            knob = NewKnob(min * sensitivity, max * sensitivity, step,
                           min * sensitivity)
       \/ knob = NewKnob(60 * sensitivity, 200 * sensitivity, sensitivity,
                         120 * sensitivity)

\* the drags of one Knob
NextKnob ==
    \/ KnobHandleMouseDown
    \/ KnobHandleMouseMove
    \/ KnobHandleMouseUp
    \/ KnobHandleTouchStart
    \/ KnobHandleTouchMove
    \/ KnobHandleTouchEnd

SpecKnob == InitKnob /\ [][NextKnob]_vars

----------------------------------------------------------------------------
(* Properties *)

Loads == {"fileDecoded", "recordingDecoded"}
Releases == {"handleMouseUp", "handleTouchEnd"}
EffectSetters == {"setReverbAmount", "setDelayAmount", "setFilterFreq"}

\* the region a release of the drag in t commits, <<>> when it commits none
Committed(t) ==
    IF t.isDragging /\ t.dragStart # NullPos /\ t.dragEnd # NullPos
       /\ Max(t.dragStart[1], t.dragEnd[1])
            - Min(t.dragStart[1], t.dragEnd[1]) > ClickThreshold
    THEN <<Min(t.dragStart[1], t.dragEnd[1]), Max(t.dragStart[1], t.dragEnd[1])>>
    ELSE <<>>

\* a track but for what a render of the parent hands it
TrackData(t) ==
    [t EXCEPT !.audioContext = FALSE, !.destinationNode = FALSE,
              !.reverbImpulseRef = FALSE]

\* the retained source was not started: start() threw
FailedStart(t) == ~t.trackPlaying /\ t.sourceNodeRef.src = "created"

\* C1: in every state of a track with a clip,
\* 0 <= loopStart < loopEnd <= clip.duration.
RegionWithinClip ==
    \A i \in DOMAIN tracks :
        HasClip(tracks[i]) =>
            /\ 0 <= tracks[i].loopStart
            /\ tracks[i].loopStart < tracks[i].loopEnd
            /\ tracks[i].loopEnd <= tracks[i].audioBuffer.duration

\* C2: right after a clip is installed (file decoded or recording decoded)
\* the region is exactly [0, duration of the new clip].
ClipReplaceResetsRegion ==
    \A i \in DOMAIN tracks :
        (lastOp.track = i /\ lastOp.op \in Loads) =>
            /\ tracks[i].loopStart = 0
            /\ tracks[i].loopEnd = tracks[i].audioBuffer.duration

\* what holds of a load that arrives while the track is Playing: the old
\* source is stopped and released, and a source retained afterwards plays
\* the new clip
OldSourceStopped(t) ==
    /\ t.released # <<>>
    /\ \A k \in DOMAIN t.released : t.released[k].src # "started"
    /\ t.sourceNodeRef # NoNode => t.sourceNodeRef.buffer = t.audioBuffer.req

StopIsIdempotent ==
    [][/\ \A i \in DOMAIN tracks' :
            LET t == tracks'[i] IN
            /\ stopAudio(stopAudio(t)) = stopAudio(t)
            /\ TrackState(stopAudio(t)) \in {"Empty", "Loaded"}
            /\ TrackState(t) \in {"Empty", "Loaded"} => stopAudio(t) = t
       /\ lastOp'.op \in {"handleMasterStop", "handleTrackStop"}
            => ~lastOp'.threw
       /\ lastOp'.op = "handleMasterStop" =>
            \A i \in DOMAIN tracks :
                lastOp'.from[i] \in {"Empty", "Loaded"}
                    => TrackData(tracks'[i]) = TrackData(tracks[i])
       /\ lastOp'.op = "handleTrackStop" =>
            TrackState(tracks'[lastOp'.track]) = "Loaded"
       /\ (lastOp'.op \in EffectSetters /\ ~isPlaying) =>
            LET i == lastOp'.track IN
            lastOp'.from[i] \in {"Empty", "Loaded"} =>
                tracks'[i] = [tracks[i] EXCEPT
                    !.reverbAmount = tracks'[i].reverbAmount,
                    !.delayAmount = tracks'[i].delayAmount,
                    !.filterFreq = tracks'[i].filterFreq]
      ]_vars

\* C4 witness: a master stop reached a track that had played, had been
\* stopped with its own button and was Loaded.
StopIsIdempotentWitness ==
    /\ lastOp.op = "handleMasterStop"
    /\ ~isPlaying
    /\ \E i \in DOMAIN tracks :
        /\ lastOp.from[i] = "Loaded"
        /\ TrackState(tracks[i]) = "Loaded"
        /\ tracks[i].released # <<>>

\* C5, for regions inside the clip: a region committed on a Playing track
\* leaves it Playing, its source looping over the new region.
RegionCommitRestarts ==
    [][\A i \in DOMAIN tracks :
        LET c == Committed(tracks[i]) IN
        (/\ lastOp'.track = i /\ lastOp'.op \in Releases
         /\ lastOp'.from[i] = "Playing"
         /\ c # <<>>
         /\ 0 <= c[1] /\ c[2] <= tracks[i].audioBuffer.duration)
        => /\ TrackState(tracks'[i]) = "Playing"
           /\ tracks'[i].sourceNodeRef.loopStart = c[1]
           /\ tracks'[i].sourceNodeRef.loopEnd = c[2]
      ]_vars

\* the value an effect setter step stored differs from the one before
Changed(i) ==
    <<tracks'[i].reverbAmount, tracks'[i].delayAmount, tracks'[i].filterFreq>>
        # <<tracks[i].reverbAmount, tracks[i].delayAmount, tracks[i].filterFreq>>

\* the retained chain carries the track's stored effect parameters
BuiltWithStored(t) ==
    /\ t.sourceNodeRef.filterFreq = t.filterFreq
    /\ t.sourceNodeRef.delayTime = t.delayAmount
    /\ t.sourceNodeRef.reverbGain = t.reverbAmount

StaleDecodeDiscarded ==
    [][\A i \in DOMAIN tracks :
        tracks'[i].audioBuffer.req >= tracks[i].audioBuffer.req
      ]_vars

\* C8: when a track retains a rebuilt chain, no chain it released before is
\* still connected to the speakers or the recording bus.
PreviousChainDisconnected ==
    \A i \in DOMAIN tracks :
        tracks[i].sourceNodeRef # NoNode =>
            \A k \in DOMAIN tracks[i].released :
                tracks[i].released[k].conns \cap OutputEdges = {}

\* the connections of the dry path
DryPath == {<<"source", "filter">>, <<"filter", "gain">>}

\* C9 as stated: a chain built with both mixes 0 has no delay node and no
\* reverb node.
DryOnlyNoEffectNodes ==
    \A i \in DOMAIN tracks :
        LET n == tracks[i].sourceNodeRef IN
        (n # NoNode /\ n.delayTime = 0 /\ n.reverbGain = 0)
            => n.made \cap {"delay", "reverb"} = {}

\* C9 amended: a chain built with both mixes 0 connects only the dry path
\* to the outputs and has no reverb node; its delay node exists, unconnected.
DryOnlyConnections ==
    \A i \in DOMAIN tracks :
        LET n == tracks[i].sourceNodeRef IN
        (n # NoNode /\ n.delayTime = 0 /\ n.reverbGain = 0)
            => /\ n.conns \ OutputEdges = DryPath
               /\ "reverb" \notin n.made
               /\ "delay" \in n.made

\* C9 witness: a rebuilt chain with both mixes 0 is playing.
DryOnlyWitness ==
    \E i \in DOMAIN tracks :
        /\ tracks[i].sourceNodeRef.src = "started"
        /\ tracks[i].sourceNodeRef.delayTime = 0
        /\ tracks[i].sourceNodeRef.reverbGain = 0
        /\ tracks[i].released # <<>>

\* C10: every chain connects filter to track gain; its delay branch reaches
\* the track gain only if it was built with delayMix > 0, its reverb branch
\* only if it was built with reverbMix > 0.
BranchWiring ==
    \A i \in DOMAIN tracks :
        LET n == tracks[i].sourceNodeRef IN
        n # NoNode =>
            /\ DryPath \subseteq n.conns
            /\ <<"delayGain", "gain">> \in n.conns => n.delayTime > 0
            /\ <<"reverbGain", "gain">> \in n.conns => n.reverbGain > 0

\* C10 witness: a chain built with a delay mix and no reverb mix has the
\* delay branch wired and the reverb branch not.
BranchWiringWitness ==
    \E i \in DOMAIN tracks :
        LET n == tracks[i].sourceNodeRef IN
        /\ n.src = "started"
        /\ n.delayTime > 0 /\ n.reverbGain = 0
        /\ <<"delayGain", "gain">> \in n.conns
        /\ <<"reverbGain", "gain">> \notin n.conns

LoadCompletions == {"fileDecoded", "fileDecodeFailed"}

\* C11: a file load that fails (decode rejected or file unreadable) changes
\* nothing but the loading flag, which it clears: the clip, the region, the
\* playing state, the retained source, every other track and the transport
\* flag stay as they were; and after any file load completes, successfully
\* or not, the track's loading flag is false.
DecodeFailureLeavesState ==
    [][/\ lastOp'.op = "fileDecodeFailed" =>
            LET i == lastOp'.track IN
            /\ tracks' = [tracks EXCEPT
                    ![i] = [@ EXCEPT !.isLoading = FALSE,
                                     !.decodes = tracks'[i].decodes]]
            /\ Cardinality(tracks'[i].decodes)
                    = Cardinality(tracks[i].decodes) - 1
            /\ isPlaying' = isPlaying
       /\ lastOp'.op \in LoadCompletions => ~tracks'[lastOp'.track].isLoading
      ]_vars

\* C11 witness: a load failed on a Playing track that keeps playing its
\* clip, next to another track that has a clip.
DecodeFailureWitness ==
    \E i, j \in DOMAIN tracks :
        /\ i # j
        /\ lastOp.track = i /\ lastOp.op = "fileDecodeFailed"
        /\ lastOp.from[i] = "Playing"
        /\ TrackState(tracks[i]) = "Playing"
        /\ ~tracks[i].isLoading
        /\ HasClip(tracks[j])

\* C12: no failure leaves a partial graph or an undefined track: every track
\* is Empty, Loaded or Playing, no track retains a source that was never
\* started, and no chain whose start failed is connected to the speakers or
\* the recording bus.
FailureLeavesNoGraph ==
    \A i \in DOMAIN tracks :
        LET t == tracks[i] IN
        /\ TrackState(t) # "Undefined"
        /\ t.sourceNodeRef.src = "created"
                => t.sourceNodeRef.conns \cap OutputEdges = {}
        /\ \A k \in DOMAIN t.released :
                t.released[k].src = "created"
                    => t.released[k].conns \cap OutputEdges = {}

\* C13: stopping a track recording that captured no chunk is a no-op:
\* stopRecording only clears the recording flag and stops the recorder, and
\* when the stopped recorder delivers no data its onstop starts no decode
\* and changes neither the clip, the region nor the playing state.
ZeroChunkStopIsNoOp ==
    [][\A i \in DOMAIN tracks :
        /\ (lastOp'.track = i /\ lastOp'.op = "stopRecording") =>
                tracks'[i] = [tracks[i] EXCEPT
                    !.isRecording = FALSE,
                    !.recorders = tracks'[i].recorders]
        /\ (/\ lastOp'.track = i /\ lastOp'.op = "recorderStopped"
            /\ tracks'[i].recordedChunksRef = tracks[i].recordedChunksRef) =>
                tracks'[i] = [tracks[i] EXCEPT
                    !.recorders = tracks'[i].recorders]
      ]_vars

\* C14: startMasterRecording called while a master recording is in progress
\* is a no-op: no recorder is created, the chunks, the elapsed time, the
\* previous artifact, the timer, the transport flag and the tracks are
\* unchanged.
StartWhileRecordingIsNoOp ==
    [][(lastOp'.op = "startMasterRecording" /\ master.isRecording) =>
            /\ master' = master
            /\ isPlaying' = isPlaying
            /\ tracks' = tracks
      ]_vars

\* C14 witness: startMasterRecording was called one second or more into a
\* recording, which goes on with its one recorder.
StartWhileRecordingWitness ==
    /\ lastOp.op = "startMasterRecording"
    /\ master.isRecording
    /\ master.recordingTime > 0
    /\ Len(master.recorders) = 1
    /\ master.recorders[master.mediaRecorderRef] = "recording"

\* C15: stopping a master recording that captured no chunk produces no
\* artifact: stopMasterRecording clears the recording flag, and when the
\* stopped recorder delivers no data the recorded blob is absent afterwards.
ZeroChunkMasterStopNoArtifact ==
    [][/\ (lastOp'.op = "stopMasterRecording" /\ master.isRecording)
            => ~master'.isRecording
       /\ (/\ lastOp'.op = "masterRecorderStopped"
           /\ master'.recordedChunksRef = master.recordedChunksRef)
            => (master'.recordedBlob = <<>> /\ ~lastOp'.threw)
      ]_vars

\* C16: a session always has between 1 and 16 tracks: addTrack on a session
\* of 16 tracks leaves the track list as it is, and no step removes or
\* replaces a track of the list.
TrackCountBounded ==
    [][/\ 1 <= Len(tracks) /\ Len(tracks) <= TrackCap
       /\ 1 <= Len(tracks') /\ Len(tracks') <= TrackCap
       /\ Len(tracks') >= Len(tracks)
       /\ \A i \in DOMAIN tracks : tracks'[i].id = tracks[i].id
       /\ (lastOp'.op = "addTrack" /\ Len(tracks) = TrackCap)
            => tracks' = tracks
       /\ (lastOp'.op = "addTrack" /\ Len(tracks) < TrackCap)
            => Len(tracks') = Len(tracks) + 1
      ]_vars

\* C16 witness: addTrack was called on a session of 16 tracks, which still
\* has 16 tracks.
TrackCountWitness ==
    /\ lastOp.op = "addTrack"
    /\ Len(lastOp.from) = TrackCap
    /\ Len(tracks) = TrackCap

\* C17: the ids of a session's tracks are pairwise distinct in every state.
TrackIdsDistinct ==
    \A i, j \in DOMAIN tracks : i # j => tracks[i].id # tracks[j].id

\* the length of the selection of the drag in t
DragLength(t) ==
    Max(t.dragStart[1], t.dragEnd[1]) - Min(t.dragStart[1], t.dragEnd[1])

\* C18: a release (mouse up, mouse leave or touch end) of a drag whose start
\* and end times differ by at most 0.01 s calls no region-change handler
\* and changes nothing of the track but the drag's own state: the region,
\* the clip, the retained source and the playing state stay as they were.
SmallGestureChangesNothing ==
    [][\A i \in DOMAIN tracks :
        (/\ lastOp'.track = i /\ lastOp'.op \in Releases
         /\ tracks[i].isDragging
         /\ tracks[i].dragStart # NullPos /\ tracks[i].dragEnd # NullPos
         /\ DragLength(tracks[i]) <= ClickThreshold)
        => /\ tracks'[i].regionChanges = <<>>
           /\ tracks'[i] = [tracks[i] EXCEPT !.isDragging = FALSE,
                                             !.pointer = "none"]
      ]_vars

\* C18 witness: a drag that moved, by no more than 0.01 s, was released on a
\* Playing track; no region change was reported.
SmallGestureWitness ==
    \E i \in DOMAIN tracks :
        /\ lastOp.track = i /\ lastOp.op \in Releases
        /\ lastOp.from[i] = "Playing"
        /\ ~tracks[i].isDragging
        /\ tracks[i].dragStart # NullPos /\ tracks[i].dragEnd # NullPos
        /\ 0 < DragLength(tracks[i])
        /\ DragLength(tracks[i]) <= ClickThreshold
        /\ tracks[i].regionChanges = <<>>

\* C19: a release of a drag whose start and end times differ by more than
\* 0.01 s reports exactly one region change for the gesture, carrying
\* (min(start, end), max(start, end)) with end the time of the last move,
\* and stores it as the track's region; a release or mouse leave with no
\* drag in progress reports nothing.
LargeGestureReportsOnce ==
    [][\A i \in DOMAIN tracks :
        (lastOp'.track = i /\ lastOp'.op \in Releases) =>
            LET t == tracks[i] IN
            /\ ~tracks'[i].isDragging
            /\ IF /\ t.isDragging
                  /\ t.dragStart # NullPos /\ t.dragEnd # NullPos
                  /\ DragLength(t) > ClickThreshold
               THEN /\ tracks'[i].regionChanges =
                        << <<Min(t.dragStart[1], t.dragEnd[1]),
                             Max(t.dragStart[1], t.dragEnd[1])>> >>
                    /\ tracks'[i].loopStart = Min(t.dragStart[1], t.dragEnd[1])
                    /\ tracks'[i].loopEnd = Max(t.dragStart[1], t.dragEnd[1])
               ELSE tracks'[i].regionChanges = t.regionChanges
      ]_vars

\* C19 witness: a drag made from right to left over more than 0.01 s was
\* ended by the mouse: one region change stands reported, from the time of
\* the last move to the time of the press.
LargeGestureWitness ==
    \E i \in DOMAIN tracks :
        LET t == tracks[i] IN
        /\ lastOp.track = i /\ lastOp.op = "handleMouseUp"
        /\ ~t.isDragging
        /\ t.dragStart # NullPos /\ t.dragEnd # NullPos
        /\ t.dragEnd[1] + ClickThreshold < t.dragStart[1]
        /\ t.regionChanges = << <<t.dragEnd[1], t.dragStart[1]>> >>
        /\ t.loopStart = t.dragEnd[1]

\* C20: every value a knob emits during a drag lies in [min, max], whatever
\* min < max, the step and the pointer's travel.
KnobEmitsWithinRange ==
    knob.emitted # <<>> =>
        /\ knob.min <= knob.emitted[1]
        /\ knob.emitted[1] <= knob.max

KnobPresses == {"Knob.handleMouseDown", "Knob.handleTouchStart"}
KnobMoves == {"Knob.handleMouseMove", "Knob.handleTouchMove"}

\* the raw value of a move of knob k over pointer travel delta, clamped
ClampedRaw(k, delta) ==
    Max(k.min, Min(k.max,
        k.startValue - (delta * (k.max - k.min)) \div sensitivity))

\* C21: a press records the value; a move keeps what the press recorded and
\* emits, from the recorded value and the pointer's travel since the press
\* alone, the clamped raw value rounded to the nearest multiple of the step
\* (halves upwards) when the step is not 0, and the clamped raw value itself
\* when it is 0.
KnobRoundsToNearestStep ==
    [][/\ lastOp'.op \in KnobPresses => knob'.startValue = knob.value
       /\ lastOp'.op \in KnobMoves =>
            LET c == ClampedRaw(knob, knob'.travel)
                e == knob'.emitted[1]
            IN  /\ knob'.startValue = knob.startValue
                /\ knob'.startY = knob.startY
                /\ knob'.startX = knob.startX
                /\ knob'.value = e
                /\ IF knob.step = 0
                   THEN e = c
                   ELSE /\ e % knob.step = 0
                        /\ 2 * (e - c) <= knob.step
                        /\ 2 * (c - e) < knob.step
      ]_vars

\* C21 witness: the knob with min 60, max 200 and step 1 was dragged to the
\* raw value 137.6 and emitted 138.
KnobRoundsWitness ==
    /\ lastOp.op \in KnobMoves
    /\ knob.min = 60 * sensitivity /\ knob.max = 200 * sensitivity
    /\ knob.step = sensitivity
    /\ 5 * ClampedRaw(knob, knob.travel) = 688 * sensitivity
    /\ knob.emitted = <<138 * sensitivity>>

\* C22: when the transport flag changes to stopped no track is Playing
\* afterwards, when it changes to playing every track with a clip is Playing
\* afterwards, and a master play or stop that leaves the flag as it was
\* changes no track.
TracksObserveTransport ==
    [][/\ isPlaying /\ ~isPlaying' =>
            \A i \in DOMAIN tracks' : TrackState(tracks'[i]) # "Playing"
       /\ ~isPlaying /\ isPlaying' =>
            \A i \in DOMAIN tracks' :
                HasClip(tracks'[i]) => TrackState(tracks'[i]) = "Playing"
       /\ /\ lastOp'.op \in {"handleMasterPlay", "handleMasterStop"}
          /\ isPlaying' = isPlaying
          => tracks' = tracks
      ]_vars

\* C23: a startMasterRecording that started a recorder leaves the transport
\* flag set, whether it was set before or not, the recording flag set, the
\* elapsed time 0 and no artifact.
MasterStartLeavesPlaying ==
    [][/\ lastOp'.op = "startMasterRecording"
       /\ Len(master'.recorders) > Len(master.recorders)
       => /\ isPlaying'
          /\ master'.isRecording
          /\ master'.recordingTime = 0
          /\ master'.recordedBlob = <<>>
          /\ master'.recorders[master'.mediaRecorderRef] = "recording"
      ]_vars

\* C23 witness: a second recording was started while the transport was
\* stopped, and started the loaded track with it.
MasterStartWitness ==
    /\ lastOp.op = "startMasterRecording"
    /\ Len(master.recorders) = 2
    /\ master.recorders[1] = "inactive"
    /\ master.isRecording
    /\ lastOp.from[1] = "Loaded"
    /\ TrackState(tracks[1]) = "Playing"
    /\ isPlaying

\* C24: in every state a track that follows the master has the master's
\* tempo, whatever changed last (the master's tempo, the mode, the track's
\* own tempo knob), and a change of the master's tempo leaves the tempo of
\* every track that does not follow it as it was.
TempoModes ==
    [][/\ \A i \in DOMAIN tracks' :
            tracks'[i].syncToMaster =>
                tracks'[i].trackTempo = master'.masterTempo
       /\ lastOp'.op = "setMasterTempo" =>
            \A i \in DOMAIN tracks :
                ~tracks[i].syncToMaster =>
                    /\ ~tracks'[i].syncToMaster
                    /\ tracks'[i].trackTempo = tracks[i].trackTempo
      ]_vars

\* C24 witness: the master's tempo changed to 200: the track that follows
\* it has 200, the track that does not kept the 60 of its own knob.
TempoModesWitness ==
    /\ lastOp.op = "setMasterTempo"
    /\ master.masterTempo = 200
    /\ Len(tracks) = 2
    /\ tracks[1].syncToMaster /\ tracks[1].trackTempo = 200
    /\ ~tracks[2].syncToMaster /\ tracks[2].trackTempo = 60

\* C25: the artifact assembled when a master recorder's stop arrives is
\* made of the chunks of that recorder alone, in order: a recorder started
\* without a timeslice delivers one chunk, so the artifact is that chunk.
ArtifactOfOneRecording ==
    [][/\ lastOp'.op = "masterRecorderStopped"
       /\ master'.recordedBlob # master.recordedBlob
       => \E k \in DOMAIN master.recorders :
            /\ master.recorders[k] = "stopping"
            /\ master'.recorders[k] = "inactive"
            /\ master'.recordedBlob = <<k>>
      ]_vars

\* the sources of track t that are started and not stopped: the retained
\* one and those of the chains it no longer references
LiveSources(t) ==
    (IF t.sourceNodeRef.src = "started" THEN 1 ELSE 0)
    + Cardinality({k \in DOMAIN t.released : t.released[k].src = "started"})

\* C26: in every state each track has at most one source that is started
\* and not stopped.
AtMostOneLiveSource ==
    \A i \in DOMAIN tracks : LiveSources(tracks[i]) <= 1

\* C26 witness: a region was committed on a playing track: the source that
\* played is stopped and released, the one retained is the only live one.
LiveSourceWitness ==
    \E i \in DOMAIN tracks :
        /\ lastOp.op = "handleTouchEnd"
        /\ lastOp.from[i] = "Playing"
        /\ tracks[i].regionChanges # <<>>
        /\ Len(tracks[i].released) = 1
        /\ tracks[i].released[1].src = "stopped"
        /\ tracks[i].sourceNodeRef.src = "started"
        /\ LiveSources(tracks[i]) = 1

\* C27: in every state of a track the trackPlaying flag is set exactly when
\* the retained source is started and not stopped, and while the flag is
\* clear no source of the track is live, retained or released.
FlagMatchesLiveSource ==
    \A i \in DOMAIN tracks :
        /\ tracks[i].trackPlaying <=> tracks[i].sourceNodeRef.src = "started"
        /\ ~tracks[i].trackPlaying => LiveSources(tracks[i]) = 0

\* C27 witness: the master's play reached a track whose start failed: the
\* chain built is retained, its source not started, the flag clear.
FlagMatchesWitness ==
    \E i \in DOMAIN tracks :
        /\ lastOp.op = "handleMasterPlay"
        /\ isPlaying
        /\ HasClip(tracks[i])
        /\ FailedStart(tracks[i])
        /\ Len(tracks[i].released) = 1

\* C28: once the session's context exists, no track holds an absent context
\* (so that no load, play or record of a track is ignored for lack of one).
TracksHoldContext ==
    audioContextRef => \A i \in DOMAIN tracks : tracks[i].audioContext

\* C29: in every state of a track at most one recorder is recording, it is
\* the one mediaRecorderRef holds, and isRecording is set exactly when there
\* is one.
OneActiveRecorder ==
    \A i \in DOMAIN tracks :
        LET t == tracks[i]
            active == {k \in DOMAIN t.recorders : t.recorders[k] = "recording"}
        IN  /\ Cardinality(active) <= 1
            /\ active \subseteq {t.mediaRecorderRef}
            /\ t.isRecording <=> active # {}

LiveTimers(m) == {k \in DOMAIN m.timers : m.timers[k] = "live"}

\* C30: in every state where isRecording is false no timer is live, also
\* after a stopMasterRecording whose stop() threw; at most one timer is live
\* at any time; and the elapsed time is not increased while isRecording is
\* false.
TimerOnlyWhileRecording ==
    [][/\ ~master'.isRecording => LiveTimers(master') = {}
       /\ Cardinality(LiveTimers(master')) <= 1
       /\ lastOp'.op = "tick" => master.isRecording
      ]_vars

=============================================================================
